---- MODULE Spec2Model ----
(***************************************************************************)
(* A model of the valuation pipeline of app.py: the cached batched price   *)
(* download (fetch_all_stock_data), the two valuation passes               *)
(* (calculate_returns, calculate_current_positions) and the leaderboard    *)
(* built from them, driven by reruns of the Streamlit script.              *)
(*                                                                         *)
(* Numbers.  Prices and entry prices are positive integers; an allocation  *)
(* fraction f is held as the integer 100 * f (0.5 is 50).  A percentage    *)
(* return r is held as the integer r * Scale, where every entry price      *)
(* divides Scale, so that the division by entry_price is exact.  Floating  *)
(* point rounding is not modelled; NaN is, with pandas' rules (it spreads  *)
(* through + - * /, and groupby-sum skips it).                             *)
(*                                                                         *)
(* A data frame is a record [index, cols]: index is the sequence of row    *)
(* labels (trading dates), cols maps a column label to its sequence of     *)
(* values.                                                                 *)
(***************************************************************************)
EXTENDS Integers, Sequences, FiniteSets, TLC

\* ------------------------------------------------------------ bounds ----

\* Largest number of rows of the positions table.
MaxPos == 3

\* The clock stops advancing here (seconds).
MaxTime == 3600

\* One step of the clock (seconds).
TickStep == 1800

\* --------------------------------------------------- program constants --

\* @st.cache_data(ttl=3600)
TTL == 3600

\* date.today(), as a day number; constant over the modelled hour or two.
Today == 100

\* A missing value of a float column.
NaN == -999999

\* Player names, in alphabetical order.
PlayerNames == <<"A", "B">>

Players == {PlayerNames[i] : i \in DOMAIN PlayerNames}

Symbols == {"X", "Y"}

\* allocation * 100
Allocations == {50, 100}

EntryPrices == {2}

\* Closing prices the provider may report.
Closes == {1, 3}

\* The trading dates of the window, as the provider reports them.
Dates == <<1, 2>>

\* Values of the "Days to show" slider (7..90, default 30) that are tried.
DaysDefault == 30

DaysChoices == {7, 30}

\* The least number every entry price divides.
Scale == CHOOSE n \in 1..100 :
            /\ \A e \in EntryPrices : n % e = 0
            /\ \A m \in 1..(n - 1) : \E e \in EntryPrices : m % e # 0

\* ------------------------------------------------------------- state ----

VARIABLES
    positions,          \* rows of the positions table, in SELECT order
    market,             \* what the provider has: symbol -> series of closes
    days_to_show,       \* the slider
    now,                \* the clock, seconds
    cache,              \* st.cache_data's entries for fetch_all_stock_data
    calls,              \* provider requests of the last run (symbol sets)
    response,           \* the provider's answer in the last run
    status,             \* how the last run ended
    stock_data,         \* the price matrix of the last run
    historical_df,      \* calculate_returns' rows
    current_returns_df, \* calculate_current_positions' rows
    leaderboard,        \* the sorted per-player totals
    ranking             \* the lines of the ranking table, as written

vars == <<positions, market, days_to_show, now, cache, calls,
          response, status, stock_data, historical_df, current_returns_df,
          leaderboard, ranking>>

\* ------------------------------------------------------------ frames ----

EmptyCols == [c \in {} |-> <<>>]

\* pd.DataFrame()
EmptyFrame == [index |-> <<>>, cols |-> EmptyCols]

\* DataFrame.empty: some axis has length 0.
IsEmpty(df) == Len(df.index) = 0 \/ DOMAIN df.cols = {}

Columns(df) == DOMAIN df.cols

Range(s) == {s[i] : i \in DOMAIN s}

Series == [DOMAIN Dates -> Closes \cup {NaN}]

Markets == UNION {[S -> Series] : S \in SUBSET Symbols}

PositionRows == [player : Players, symbol : Symbols,
                 allocation : Allocations, entry_price : EntryPrices]


\* ------------------------------------------------------- the provider ---

\* The column layout of a yf.download answer: one level of field names
\* ("flat": Open, High, Low, Close, Volume), or two levels, ticker then field
\* ("grouped").  group_by='ticker' gives "grouped" for several tickers; for a
\* single ticker the layout depends on the installed yfinance.
Shapes(symbols) == IF Cardinality(symbols) = 1 THEN {"flat", "grouped"}
                   ELSE {"grouped"}

\* yf.download(tickers=symbols, ...): it raises (fail), or answers with the
\* closes of the requested symbols it has; a symbol it does not have is
\* absent from the answer.
yf_download(symbols, mkt, fail, shape) ==
    LET have == symbols \cap DOMAIN mkt
    IN  [raised |-> fail,
         shape  |-> shape,
         index  |-> IF fail \/ have = {} THEN <<>> ELSE Dates,
         cols   |-> IF fail THEN EmptyCols ELSE [s \in have |-> mkt[s]]]

\* The answer recorded for a run that asked the provider nothing.
NoResponse == [raised |-> FALSE, shape |-> "none", index |-> <<>>,
               cols |-> EmptyCols]

\* ------------------------------------------------ fetch_all_stock_data --

\* The try block: [exc |-> TRUE] when a statement of it raises.
\*   len(symbols) == 1: pd.DataFrame({'Close': data['Close']}); data['Close']
\*     is a KeyError on a grouped answer (its first level holds tickers).
\*   otherwise: data.xs('Close', axis=1, level=1), which raises on an answer
\*     without columns.
fetch_try(symbols, data) ==
    IF data.raised THEN [exc |-> TRUE, value |-> EmptyFrame]
    ELSE IF Cardinality(symbols) = 1
    THEN IF data.shape = "flat"
         THEN [exc |-> FALSE,
               value |-> [index |-> data.index,
                          cols |-> [c \in {"Close"} |->
                                      IF DOMAIN data.cols = {} THEN <<>>
                                      ELSE data.cols[CHOOSE s \in DOMAIN data.cols : TRUE]]]]
         ELSE [exc |-> TRUE, value |-> EmptyFrame]
    ELSE IF DOMAIN data.cols = {}
         THEN [exc |-> TRUE, value |-> EmptyFrame]
         ELSE [exc |-> FALSE,
               value |-> [index |-> data.index, cols |-> data.cols]]

\* The same body with the except clause lost: the exception leaves the
\* function.
fetch_unguarded(symbols, data) == fetch_try(symbols, data)

\* try: ... except Exception: st.error(...); return pd.DataFrame()
fetch_all_stock_data(symbols, data) ==
    LET r == fetch_try(symbols, data)
    IN  IF r.exc THEN [exc |-> FALSE, value |-> EmptyFrame] ELSE r

\* ---------------------------------------------------------- arithmetic --

\* a + b on floats
FAdd(a, b) == IF a = NaN \/ b = NaN THEN NaN ELSE a + b

\* ((price - entry_price) / entry_price) * allocation * 100, times Scale
WeightedReturn(price, entry_price, allocation) ==
    IF price = NaN THEN NaN
    ELSE (price - entry_price) * allocation * (Scale \div entry_price)

\* The first occurrences of a sequence's elements, in order: the key order of
\* a dict filled by assignments in that order.
RECURSIVE Distinct(_)
Distinct(s) ==
    IF s = <<>> THEN <<>>
    ELSE LET front == Distinct(SubSeq(s, 1, Len(s) - 1))
             last  == s[Len(s)]
         IN  IF last \in Range(front) THEN front ELSE Append(front, last)

RECURSIVE FSum(_)
FSum(s) == IF s = <<>> THEN 0 ELSE FAdd(FSum(Tail(s)), Head(s))

\* Series.sum() of a groupby: NaN is skipped.
RECURSIVE SkipNaSum(_)
SkipNaSum(s) ==
    IF s = <<>> THEN 0
    ELSE (IF Head(s) = NaN THEN 0 ELSE Head(s)) + SkipNaSum(Tail(s))

\* ---------------------------------------------------------- the table ---

\* The allocation (times 100) a table commits for a player.
Allocated(t, player) ==
    LET mine == SelectSeq(t, LAMBDA p : p.player = player)
    IN  FSum([i \in DOMAIN mine |-> mine[i].allocation])

\* The tables tried: at most MaxPos rows, and no player allocates more than
\* the whole bankroll (allocations are fractions of it).  A player may hold
\* the same symbol twice.
PositionTables ==
    {t \in UNION {[1..n -> PositionRows] : n \in 0..MaxPos} :
        \A p \in Players : Allocated(t, p) <= 100}

\* ----------------------------------------------------- the valuations ---

SymbolsOf(pos) == {pos[i].symbol : i \in DOMAIN pos}

\* player_positions[player][symbol]: the details of the LAST row of the
\* table with that player and symbol (a dict assignment replaces).
Details(pos, player, symbol) ==
    pos[CHOOSE i \in DOMAIN pos :
          /\ pos[i].player = player /\ pos[i].symbol = symbol
          /\ \A j \in DOMAIN pos :
                pos[j].player = player /\ pos[j].symbol = symbol => j <= i]

\* The symbols of player_positions[player], in dict order.
Held(pos, player) ==
    LET mine == SelectSeq(pos, LAMBDA p : p.player = player)
    IN  Distinct([i \in DOMAIN mine |-> mine[i].symbol])

\* player_returns at row t of the matrix: 0.0 plus the stock_returns of
\* every held symbol that is a column.
player_returns(stock, pos, player, t) ==
    LET syms == SelectSeq(Held(pos, player), LAMBDA s : s \in Columns(stock))
    IN  FSum([k \in DOMAIN syms |->
                WeightedReturn(stock.cols[syms[k]][t],
                               Details(pos, player, syms[k]).entry_price,
                               Details(pos, player, syms[k]).allocation)])

\* calculate_returns(stock_data, positions): the rows of combined_df, one
\* per player (in dict order) and date.
calculate_returns(stock, pos) ==
    LET players == Distinct([i \in DOMAIN pos |-> pos[i].player])
        n       == Len(stock.index)
    IN  [k \in 1..(Len(players) * n) |->
            LET player == players[((k - 1) \div n) + 1]
                t      == ((k - 1) % n) + 1
            IN  [Date       |-> stock.index[t],
                 player     |-> player,
                 return_pct |-> player_returns(stock, pos, player, t)]]

\* A row of returns_data.
SnapshotRow(p, current_price) ==
    [player        |-> p.player,
     symbol        |-> p.symbol,
     allocation    |-> p.allocation,
     entry_price   |-> p.entry_price,
     current_price |-> current_price,
     return_pct    |-> WeightedReturn(current_price, p.entry_price, p.allocation)]

\* The loop without its membership test, a missing symbol read as NaN.
current_positions_unfiltered(stock, pos) ==
    IF IsEmpty(stock) THEN <<>>
    ELSE [k \in DOMAIN pos |->
            SnapshotRow(pos[k],
                        IF pos[k].symbol \in Columns(stock)
                        THEN stock.cols[pos[k].symbol][Len(stock.index)]
                        ELSE NaN)]

\* The loop reading the first row of the matrix (iloc[0]) as current_prices.
current_positions_first_row(stock, pos) ==
    IF IsEmpty(stock) THEN <<>>
    ELSE LET found == SelectSeq(pos, LAMBDA p : p.symbol \in Columns(stock))
         IN  [k \in DOMAIN found |->
                SnapshotRow(found[k], stock.cols[found[k].symbol][1])]

\* calculate_current_positions(stock_data, positions)
calculate_current_positions(stock, pos) ==
    IF IsEmpty(stock) THEN <<>>
    ELSE LET found == SelectSeq(pos, LAMBDA p : p.symbol \in Columns(stock))
         IN  [k \in DOMAIN found |->
                SnapshotRow(found[k],
                            stock.cols[found[k].symbol][Len(stock.index)])]

\* -------------------------------------------------------- leaderboard ---

\* current_returns_df.groupby('player')['return_pct'].sum().reset_index():
\* one row per player, in ascending player order, labelled 0, 1, ...
group_sum(df) ==
    LET names == SelectSeq(PlayerNames,
                           LAMBDA p : \E i \in DOMAIN df : df[i].player = p)
    IN  [k \in DOMAIN names |->
            LET mine == SelectSeq(df, LAMBDA r : r.player = names[k])
            IN  [index      |-> k - 1,
                 player     |-> names[k],
                 return_pct |-> SkipNaSum([i \in DOMAIN mine |-> mine[i].return_pct])]]

Arrangements(n) ==
    {f \in [1..n -> 1..n] : \A i, j \in 1..n : f[i] = f[j] => i = j}

\* sort_values('return_pct') with ascending left at its default, True.
sort_values_ascending(df) ==
    {[k \in DOMAIN df |-> df[f[k]]] : f \in
        {g \in Arrangements(Len(df)) :
            \A k \in 1..(Len(df) - 1) :
                df[g[k]].return_pct <= df[g[k + 1]].return_pct}}

\* sort_values('return_pct', ascending=False) with the default kind
\* ('quicksort', not stable): any arrangement of the rows in non-increasing
\* order; the rows keep their labels.
sort_values(df) ==
    {[k \in DOMAIN df |-> df[f[k]]] : f \in
        {g \in Arrangements(Len(df)) :
            \A k \in 1..(Len(df) - 1) :
                df[g[k]].return_pct >= df[g[k + 1]].return_pct}}

\* for i, row in leaderboard.iterrows(): st.write(f"**{i+1}. {row['player']}**")
ranking_table(lb) ==
    [k \in DOMAIN lb |-> [label      |-> lb[k].index + 1,
                          player     |-> lb[k].player,
                          return_pct |-> lb[k].return_pct]]

\* -------------------------------------------------------------- cache ---

\* The key st.cache_data derives from the arguments of the call.  The first
\* argument is list(set(...)) of the table's symbols; the order of that list
\* is taken to be a function of the set, so the set stands for it.
CacheKey(symbols, start_date) == <<symbols, start_date>>

\* The test with the entry still served at the moment its ttl has elapsed.
Fresh_inclusive(entries, key, t) ==
    {e \in entries : e.key = key /\ t - e.at <= TTL}

\* The entries that answer a call with this key at time t: stored under the
\* key less than ttl seconds ago.
Fresh(entries, key, t) == {e \in entries : e.key = key /\ t - e.at < TTL}

\* st.cache_data.clear()
cache_clear(entries) == {}

\* The entries after the result of a call is stored.
Store(entries, key, t, value) ==
    {e \in entries : e.key # key} \cup {[key |-> key, at |-> t, value |-> value]}

\* ------------------------------------------------------------ the run ---

\* Lines 144-169: the valuation of a fetched matrix and the leaderboard.
Render(stock) ==
    IF IsEmpty(stock)
    THEN /\ status' = "nothing"
         /\ historical_df' = <<>>
         /\ current_returns_df' = <<>>
         /\ leaderboard' = <<>>
         /\ ranking' = <<>>
    ELSE LET current == calculate_current_positions(stock, positions)
         IN  /\ status' = "rendered"
             /\ historical_df' = calculate_returns(stock, positions)
             /\ current_returns_df' = current
             /\ IF current = <<>>
                THEN leaderboard' = <<>>
                ELSE leaderboard' \in sort_values(group_sum(current))
             /\ ranking' = ranking_table(leaderboard')

\* Lines 130-142: the cached call of fetch_all_stock_data.  An exception
\* that leaves the function ends the run.
FetchAndRender(entries) ==
    LET all_symbols == SymbolsOf(positions)
        start_date  == Today - days_to_show'
        key         == CacheKey(all_symbols, start_date)
        hits        == Fresh(entries, key, now)
    IN  IF hits # {}
        THEN /\ cache' = entries
             /\ calls' = <<>>
             /\ response' = NoResponse
             /\ stock_data' = (CHOOSE e \in hits : TRUE).value
             /\ Render(stock_data')
        ELSE \E fail \in BOOLEAN, shape \in Shapes(all_symbols) :
                LET data == yf_download(all_symbols, market, fail, shape)
                    r    == fetch_all_stock_data(all_symbols, data)
                IN  /\ calls' = <<all_symbols>>
                    /\ response' = data
                    /\ IF r.exc
                       THEN /\ cache' = entries
                            /\ stock_data' = EmptyFrame
                            /\ status' = "crashed"
                            /\ historical_df' = <<>>
                            /\ current_returns_df' = <<>>
                            /\ leaderboard' = <<>>
                            /\ ranking' = <<>>
                       ELSE /\ cache' = Store(entries, key, now, r.value)
                            /\ stock_data' = r.value
                            /\ Render(stock_data')

\* One run of the script, top to bottom: the sidebar (button, slider), the
\* positions query, and the fetch and valuation when there are positions.
Script(clicked, days) ==
    /\ days_to_show' = days
    /\ UNCHANGED <<positions, market, now>>
    /\ LET entries == IF clicked THEN cache_clear(cache) ELSE cache
       IN  IF positions = <<>>
           THEN /\ cache' = entries
                /\ calls' = <<>>
                /\ response' = NoResponse
                /\ status' = "warning"
                /\ stock_data' = EmptyFrame
                /\ historical_df' = <<>>
                /\ current_returns_df' = <<>>
                /\ leaderboard' = <<>>
                /\ ranking' = <<>>
           ELSE FetchAndRender(entries)

\* A rerun that changes no input widget.
Rerun == Script(FALSE, days_to_show)

\* The user presses "Refresh Data".
ClickRefresh == Script(TRUE, days_to_show)

\* The user moves the "Days to show" slider.
MoveSlider == \E d \in DaysChoices \ {days_to_show} : Script(FALSE, d)

\* Time passes.
Tick ==
    /\ now + TickStep <= MaxTime
    /\ now' = now + TickStep
    /\ UNCHANGED <<positions, market, days_to_show, cache, calls, response, status, stock_data, historical_df,
                   current_returns_df, leaderboard, ranking>>

\* The state before the first run.
Blank ==
    /\ days_to_show = DaysDefault
    /\ now = 0
    /\ cache = {}
    /\ calls = <<>>
    /\ response = NoResponse
    /\ status = "idle"
    /\ stock_data = EmptyFrame
    /\ historical_df = <<>>
    /\ current_returns_df = <<>>
    /\ leaderboard = <<>>
    /\ ranking = <<>>

\* Any positions table and any provider data; one session in which the
\* slider is left alone and no time passes.
Init ==
    /\ positions \in PositionTables
    /\ market \in Markets
    /\ Blank

Next == Rerun \/ ClickRefresh

Spec == Init /\ [][Next]_vars

\* A few tables and provider states, with every user action and the clock.
CacheTables ==
    {t \in PositionTables :
        \A i \in DOMAIN t : /\ t[i].player = PlayerNames[1]
                            /\ t[i].allocation = 50}

CacheMarkets ==
    {m \in Markets : \A s \in DOMAIN m : \A t \in DOMAIN Dates : m[s][t] = 3}

InitCache ==
    /\ positions \in CacheTables
    /\ market \in CacheMarkets
    /\ Blank

NextCache == Rerun \/ ClickRefresh \/ MoveSlider \/ Tick

SpecCache == InitCache /\ [][NextCache]_vars

\* ======================================================== the claims ====

\* The last run asked the provider.
Asked == calls # <<>>

\* The symbols of the last request that the provider's answer holds.
Answered == IF Asked THEN calls[1] \cap DOMAIN response.cols ELSE {}

\* The symbols of the last request absent from the provider's answer.
Missing == IF Asked THEN calls[1] \ DOMAIN response.cols ELSE {}

\* No cell of the matrix is NaN.
NoGaps(stock) ==
    \A c \in Columns(stock) : \A t \in DOMAIN stock.cols[c] : stock.cols[c][t] # NaN

\* The row number of a date in the matrix.
RowOf(stock, d) == CHOOSE t \in DOMAIN stock.index : stock.index[t] = d

\* The positions of the table whose symbol is a column of the matrix.
Resolved(stock, pos) == SelectSeq(pos, LAMBDA p : p.symbol \in Columns(stock))

\* The sum, over EVERY resolved position of a player (duplicates of a symbol
\* included), of the position's weighted return at row t.
SumOfAll(stock, pos, player, t) ==
    LET mine == SelectSeq(Resolved(stock, pos), LAMBDA p : p.player = player)
    IN  FSum([i \in DOMAIN mine |->
                WeightedReturn(stock.cols[mine[i].symbol][t],
                               mine[i].entry_price, mine[i].allocation)])

\* C1: a request of exactly one symbol S that the provider answers (here:
\* with a close on every date) yields a matrix with a column keyed by S, and
\* every position (all are on S) is found by calculate_current_positions.
C1_SingleSymbolColumn ==
    (/\ Asked
     /\ Cardinality(calls[1]) = 1
     /\ Answered = calls[1]
     /\ \A s \in Answered : \A t \in DOMAIN Dates : response.cols[s][t] # NaN)
        => /\ calls[1] \subseteq Columns(stock_data)
           /\ Len(current_returns_df) = Len(positions)

\* C2: with a matrix without gaps, at every date a player's historical
\* return is the sum over all of the player's resolved positions, duplicates
\* of a symbol included, and the player's leaderboard total is that sum at
\* the latest date.
C2_DuplicatesSum ==
    (status = "rendered" /\ NoGaps(stock_data))
        => /\ \A k \in DOMAIN historical_df :
                historical_df[k].return_pct =
                    SumOfAll(stock_data, positions, historical_df[k].player,
                             RowOf(stock_data, historical_df[k].Date))
           /\ \A k \in DOMAIN leaderboard :
                leaderboard[k].return_pct =
                    SumOfAll(stock_data, positions, leaderboard[k].player,
                             Len(stock_data.index))

\* C3: a position whose symbol is not a column of the matrix is dropped
\* without an error: the snapshot rows are exactly the positions on resolved
\* symbols, in table order, and every historical value is what it would be
\* with the unresolved positions taken out of the table (0 for a player left
\* with none).
C3_UnresolvedDropped ==
    status = "rendered" =>
        LET kept  == Resolved(stock_data, positions)
            clean == calculate_returns(stock_data, kept)
        IN  /\ \A k \in DOMAIN current_returns_df :
                    current_returns_df[k].symbol \in Columns(stock_data)
            /\ Len(current_returns_df) = Len(kept)
            /\ \A k \in DOMAIN kept :
                    /\ current_returns_df[k].player = kept[k].player
                    /\ current_returns_df[k].symbol = kept[k].symbol
                    /\ current_returns_df[k].allocation = kept[k].allocation
                    /\ current_returns_df[k].entry_price = kept[k].entry_price
            /\ \A k \in DOMAIN historical_df :
                    LET r    == historical_df[k]
                        same == {j \in DOMAIN clean : /\ clean[j].player = r.player
                                                      /\ clean[j].Date = r.Date}
                    IN  IF same = {} THEN r.return_pct = 0
                        ELSE \A j \in same : clean[j].return_pct = r.return_pct

\* C3's case: a rendered run with a position on an unresolved symbol beside
\* a position on a resolved one.
C3_Witness ==
    /\ status = "rendered"
    /\ \E i, j \in DOMAIN positions :
          /\ positions[i].symbol \notin Columns(stock_data)
          /\ positions[j].symbol \in Columns(stock_data)
          /\ positions[i].player = positions[j].player

\* The place of a player name in alphabetical order.
NameOrder(player) == CHOOSE i \in DOMAIN PlayerNames : PlayerNames[i] = player

\* The number of leaderboard entries of a player.
Entries(player) == Cardinality({k \in DOMAIN leaderboard : leaderboard[k].player = player})

\* The sum of a player's snapshot returns, missing values left out.
SnapshotTotal(player) ==
    LET mine == SelectSeq(current_returns_df, LAMBDA r : r.player = player)
    IN  SkipNaSum([i \in DOMAIN mine |-> mine[i].return_pct])

\* C4 as stated (it is enough to look at matrices without gaps): adjacent
\* entries are in non-increasing order of total return, equal totals come in
\* ascending order of player name, and each player with a snapshot row
\* appears exactly once.
C4_SortedWithTieBreak ==
    NoGaps(stock_data) =>
    /\ \A k \in 1..(Len(leaderboard) - 1) :
          /\ leaderboard[k].return_pct >= leaderboard[k + 1].return_pct
          /\ leaderboard[k].return_pct = leaderboard[k + 1].return_pct
                => NameOrder(leaderboard[k].player) < NameOrder(leaderboard[k + 1].player)
    /\ \A p \in Players :
          Entries(p) = IF \E i \in DOMAIN current_returns_df : current_returns_df[i].player = p
                       THEN 1 ELSE 0

\* C4 as amended: each entry is a player's summed snapshot return, adjacent
\* entries are in non-increasing order of it, and each player with a snapshot
\* row appears exactly once; the order of equal totals is not fixed.
C4_SortedDescending ==
    /\ \A k \in DOMAIN leaderboard :
          leaderboard[k].return_pct = SnapshotTotal(leaderboard[k].player)
    /\ \A k \in 1..(Len(leaderboard) - 1) :
          leaderboard[k].return_pct >= leaderboard[k + 1].return_pct
    /\ \A p \in Players :
          Entries(p) = IF \E i \in DOMAIN current_returns_df : current_returns_df[i].player = p
                       THEN 1 ELSE 0

\* C4's case: two players, the alphabetically later one strictly ahead.
C4_Witness ==
    /\ Len(leaderboard) = 2
    /\ leaderboard[1].return_pct > leaderboard[2].return_pct
    /\ NameOrder(leaderboard[1].player) > NameOrder(leaderboard[2].player)

\* C5: the k-th line of the ranking table carries rank k (it is enough to
\* look at leaderboards without equal totals, whose order is fixed).
C5_RankIsPosition ==
    (\A j, k \in DOMAIN leaderboard :
        j # k => leaderboard[j].return_pct # leaderboard[k].return_pct)
        => \A k \in DOMAIN ranking : ranking[k].label = k

\* The position's own percentage return, times Scale, computed the way the
\* claim states it: entry_value is the allocated share of a bankroll,
\* unit_count = entry_value / entry_price, current_value = unit_count *
\* current_price, dollar_return = current_value - entry_value, and the
\* percentage is 100 * dollar_return / entry_value.
Bankroll == 100 * Scale

PctReturn(r) ==
    IF r.current_price = NaN THEN NaN
    ELSE LET entry_value   == (r.allocation * Bankroll) \div 100
             unit_count    == entry_value \div r.entry_price
             current_value == unit_count * r.current_price
             dollar_return == current_value - entry_value
         IN  (100 * dollar_return * Scale) \div entry_value

\* The close of the latest date of the matrix for a snapshot row's symbol.
LatestClose(r) == stock_data.cols[r.symbol][Len(stock_data.index)]

\* C6 as stated: current_price is the latest close, and the reported
\* return_pct is dollar_return / entry_value as a percentage, whatever the
\* allocation.
C6_PctReturnUnweighted ==
    \A k \in DOMAIN current_returns_df :
        LET r == current_returns_df[k]
        IN  /\ r.current_price = LatestClose(r)
            /\ r.return_pct = PctReturn(r)

\* C6 as amended: current_price is the latest close, and the reported
\* return_pct is dollar_return / entry_value as a percentage MULTIPLIED BY
\* the position's allocation fraction (NaN when the latest close is).
C6_ReturnWeightedByAllocation ==
    \A k \in DOMAIN current_returns_df :
        LET r == current_returns_df[k]
        IN  /\ r.current_price = LatestClose(r)
            /\ IF PctReturn(r) = NaN THEN r.return_pct = NaN
               ELSE /\ r.return_pct # NaN
                    /\ 100 * r.return_pct = r.allocation * PctReturn(r)

\* C6's case: a snapshot row of a half allocation with a gain or a loss,
\* on a symbol whose price moved inside the window.
C6_Witness ==
    \E k \in DOMAIN current_returns_df :
        LET r == current_returns_df[k]
        IN  /\ r.allocation = 50
            /\ r.return_pct \notin {0, NaN}
            /\ stock_data.cols[r.symbol][1] \notin {NaN, r.current_price}

\* C7: fetch_all_stock_data never lets an exception out: no run ends
\* crashed; a run that asked the provider ends rendered or in the empty
\* state; its matrix has no column of a symbol the provider failed to supply;
\* and when the provider call raised the matrix is the empty frame and the
\* run ends in the empty state.
C7_FetchNeverRaises ==
    /\ status # "crashed"
    /\ Asked =>
          /\ status \in {"rendered", "nothing"}
          /\ Missing \cap Columns(stock_data) = {}
          /\ IsEmpty(stock_data) <=> status = "nothing"
          /\ response.raised => stock_data = EmptyFrame /\ status = "nothing"

\* C7's case: the provider call raised, or the answer could not be
\* unpacked, and the run ended in the empty state.
C7_Witness ==
    /\ Asked
    /\ status = "nothing"
    /\ stock_data = EmptyFrame
    /\ \/ response.raised
       \/ response.shape = "grouped" /\ Cardinality(calls[1]) = 1

\* C8: when the first answer holds some of the requested symbols and lacks
\* others, a second request is issued, for exactly the missing symbols, and
\* no more than 3 requests are made in all.
C8_MissingSymbolsRetried ==
    /\ Len(calls) <= 3
    /\ (Asked /\ Answered # {} /\ Missing # {})
          => Len(calls) >= 2 /\ calls[2] = Missing

\* C10: in the fetched matrix, for every symbol, a date after the first
\* never lacks a value when the date before it has one, and the value it
\* carries where the provider gave none is the close of the previous date.
C10_GapsCarryPreviousClose ==
    \A c \in Columns(stock_data) \cap Symbols :
        \A t \in 2..Len(stock_data.index) :
            /\ stock_data.cols[c][t - 1] # NaN => stock_data.cols[c][t] # NaN
            /\ (/\ Asked
                /\ c \in DOMAIN response.cols
                /\ response.cols[c][t] = NaN
                /\ stock_data.cols[c][t - 1] # NaN)
                  => stock_data.cols[c][t] = stock_data.cols[c][t - 1]

\* The key of the call a run makes with the table and the slider as they
\* are.
RequestKey == <<SymbolsOf(positions), Today - days_to_show>>

\* C9: in every run with positions,
\*   - after the refresh button no entry is served: the provider is called,
\*     and the cache holds nothing but the result of that call;
\*   - otherwise the provider is NOT called exactly when the cache held an
\*     entry for the call's key stored less than TTL ago; the matrix is then
\*     that entry's value and the cache is left as it was;
\*   - a provider call's result is stored under the key, stamped with the
\*     time of the call.
\* The passing of time alone changes no entry.
C9_CacheTtlAndRefresh ==
    [][/\ (ClickRefresh /\ positions # <<>>) =>
             /\ calls' # <<>>
             /\ cache' = {[key |-> RequestKey', at |-> now, value |-> stock_data']}
       /\ ((Rerun \/ MoveSlider) /\ positions # <<>>) =>
             LET live == {e \in cache : e.key = RequestKey' /\ now - e.at < TTL}
             IN  /\ calls' = <<>> <=> live # {}
                 /\ calls' = <<>> =>
                       /\ cache' = cache
                       /\ \A e \in live : stock_data' = e.value
                 /\ calls' # <<>> =>
                       /\ [key |-> RequestKey', at |-> now, value |-> stock_data'] \in cache'
                       /\ \A e \in cache' : e.key = RequestKey' => e.at = now
                       /\ \A e \in cache : e.key # RequestKey' => e \in cache'
       /\ Tick => cache' = cache
      ]_vars

\* C9's case: a run served from the cache some time after the entry was
\* stored, beside an entry of the other key stored when an hour or more had
\* passed.
C9_Witness ==
    /\ status = "rendered"
    /\ calls = <<>>
    /\ now = MaxTime
    /\ \E e \in cache : e.key = RequestKey /\ e.at > 0 /\ e.at < now
    /\ \E e \in cache : e.key # RequestKey /\ e.at >= TTL

====
